---- MODULE Spec2Model ----
(***************************************************************************)
(* A model of the open-file handle of the HopsFS / HDFS FUSE mount         *)
(* (HopsFileHandle.go): one inode, its shared staging file, the handles    *)
(* opened on it, and the remote file system the handles upload to.         *)
(*                                                                         *)
(* Operations of different handles run in parallel, so every access to     *)
(* shared state (staging file, handle set, remote file system) is one      *)
(* step.  An operation of a handle that holds the handle's Mutex is at     *)
(* pc[h] # "idle"; Truncate takes no Mutex and is a step of its own.       *)
(***************************************************************************)
EXTENDS Integers, Sequences, FiniteSets, TLC

\* ------------------------------------------------------------- bounds
NumHandles == 2        \* handles ever opened on the inode
MaxSize == 2           \* longest file content (staging and remote)
MaxWritten == 1        \* cap on a handle's totalBytesWritten
MaxRead == 1           \* cap on a handle's tatalBytesRead
MaxAttempts == 2       \* the configured RetryPolicy.MaxAttempts
MaxUpload == 3         \* cap on the bytes one remote writer is given
MaxOps == 3            \* handle operations started in one run
MaxWriterOps == 2      \* the same, in a run that starts with every handle written

\* ------------------------------------------------ program constants
ChunkSize == 1         \* make([]byte, 65536), scaled to the model's sizes

Handles == 1..NumHandles
Paths == {"a", "b"}
\* Byte values: 0 is zero fill and the remote file's first content, a
\* handle writes bytes of its own id.
Bytes == 0..NumHandles

Min(x, y) == IF x < y THEN x ELSE y
Max(x, y) == IF x > y THEN x ELSE y

Zeros(n) == [i \in 1..n |-> 0]
Take(s, n) == SubSeq(s, 1, Min(n, Len(s)))

\* Byte strings a Write request of handle h may carry
WriteData(h) == {[i \in 1..n |-> h] : n \in 1..MaxSize}

\* Content of the remote file the mount finds when it starts
InitContent == Zeros(MaxSize)

VARIABLES
  \* ---- FileSystem
  connected,    \* the DFS connector holds a live connection
  remote,       \* remote file system: path -> [exists, data]
  \* ---- FileINode (fh.File)
  path,         \* File.AbsolutePath()
  handles,      \* File.activeHandles
  handle,       \* File.handle: "nil", "open" or "closed" (closed, not yet nil)
  stMode,       \* staging proxy: "RO" reads through to the remote, "RW" is local
  stData,       \* content of the local staging file
  stPos,        \* seek offset of the staging file (SeekToStart / Read)
  cacheValid,   \* the inode's metadata cache holds attributes
  \* ---- FileHandle
  hstate,       \* "new" (not yet opened), "open", "released"
  pc,           \* position of the operation holding fh.Mutex, "idle" if none
  operation,    \* the operation string of the running Flush / Fsync
  tbw,          \* fh.totalBytesWritten
  tbr,          \* fh.tatalBytesRead
  attempt,      \* attempt number of the RetryOp of the running copyToDFS
  attempts,     \* FlushAttempt calls made by the running copyToDFS
  lastErr,      \* the error the running copyToDFS is retrying after
  bcap,         \* len(b) of the copy buffer of the running FlushAttempt
  writer,       \* remote writer w of the running FlushAttempt
  lastW,        \* the last Write of the handle that staging accepted in full
  flushed,      \* the handles that had a Flush / Fsync return success after an upload
  nops,         \* handle operations started so far
  ret           \* the operation that returned in the last step, and its result

fsVars == <<connected, remote>>
inodeVars == <<path, handles, handle, stMode, stData, stPos, cacheValid>>
opVars == <<operation, attempt, attempts, lastErr, bcap>>
fhVars == <<hstate, pc, tbw, tbr, opVars, writer, ret>>
vars == <<fsVars, inodeVars, fhVars, lastW, flushed, nops>>

NoFile == [exists |-> FALSE, data |-> <<>>]
File(d) == [exists |-> TRUE, data |-> d]
\* A remote writer: the path it was created at, the bytes given to it, and
\* the staging Read error that ended the copy loop feeding it ("nil" before).
NoWriter == [open |-> FALSE, path |-> "a", data |-> <<>>, rerr |-> "nil"]
NoWrite == [valid |-> FALSE, off |-> 0, data |-> <<>>]
NoRet == [h |-> 0, op |-> "none", err |-> "nil", n |-> 0, data |-> <<>>, ierr |-> "nil", rerr |-> "nil"]

\* An operation's result: err is what the caller gets, ierr what the
\* staging / remote call inside it returned; n and data are the bytes of a
\* Read or Write.
Result(h, op, err, n, data, ierr) ==
  [h |-> h, op |-> op, err |-> err, n |-> n, data |-> data, ierr |-> ierr, rerr |-> "nil"]

\* The result of a Flush / Fsync that ran copyToDFS: n counts its
\* FlushAttempts, ierr is what the last one returned, data the bytes that one
\* gave its remote writer and rerr the staging Read error that ended its
\* copy loop.
CopyResult(h, op, err, n, w, ierr) ==
  [h |-> h, op |-> op, err |-> err, n |-> n, data |-> w.data, ierr |-> ierr, rerr |-> w.rerr]

Init ==
  /\ connected = TRUE
  /\ remote = [p \in Paths |-> IF p = "a" THEN File(InitContent) ELSE NoFile]
  /\ path = "a"
  /\ handles = {}
  /\ handle = "nil"
  /\ stMode = "RO"
  /\ stData = <<>>
  /\ stPos = 0
  /\ cacheValid = FALSE
  /\ hstate = [h \in Handles |-> "new"]
  /\ pc = [h \in Handles |-> "idle"]
  /\ operation = [h \in Handles |-> "none"]
  /\ tbw = [h \in Handles |-> 0]
  /\ tbr = [h \in Handles |-> 0]
  /\ attempt = [h \in Handles |-> 0]
  /\ attempts = [h \in Handles |-> 0]
  /\ lastErr = [h \in Handles |-> "nil"]
  /\ bcap = [h \in Handles |-> 0]
  /\ writer = [h \in Handles |-> NoWriter]
  /\ ret = NoRet
  /\ nops = 0
  /\ lastW = [h \in Handles |-> NoWrite]
  /\ flushed = {}

\* ------------------------------------------------------ staging store
\* What the staging proxy reads: the local file, or in read-only mode the
\* remote file it reads through to.
StagingContent ==
  IF stMode = "RW" THEN stData
  ELSE IF remote[path].exists THEN remote[path].data ELSE <<>>

\* pread: up to size bytes at off; io.EOF when fewer than size are there.
ReadAt(data, off, size) ==
  LET n == Max(0, Min(size, Len(data) - off)) IN
  [n |-> n,
   data |-> SubSeq(data, off + 1, off + n),
   err |-> IF n < size THEN "EOF" ELSE "nil"]

\* pwrite: bytes at off, a gap before off reads as zeros.
WriteAt(data, off, bytes) ==
  LET base == IF Len(data) < off THEN data \o Zeros(off - Len(data)) ELSE data
      end == off + Len(bytes)
  IN [i \in 1..Max(Len(base), end) |->
        IF i > off /\ i <= end THEN bytes[i - off] ELSE base[i]]

\* ftruncate: grow with zero fill, shrink drops bytes.
TruncateTo(data, size) ==
  IF size <= Len(data) THEN SubSeq(data, 1, size)
  ELSE data \o Zeros(size - Len(data))

\* ------------------------------------------------- inode (File.go)
AbsolutePath == path

countActiveHandles == Cardinality(handles)

\* No operation returned in this step.
NoReturn == ret' = NoRet

\* A handle operation starts.
Start ==
  /\ nops < MaxOps
  /\ nops' = nops + 1

\* A step that is no accepted Write.
NoWriteStep == UNCHANGED lastW

\* A step in which no copyToDFS returns.
NoUploadStep == UNCHANGED flushed

\* Open of an existing file: the first handle opens the staging proxy in
\* read-only mode, later handles share it.
Open(h) ==
  /\ NoWriteStep
  /\ NoUploadStep
  /\ UNCHANGED nops
  /\ hstate[h] = "new"
  /\ \A g \in Handles : g < h => hstate[g] # "new"
  /\ remote[path].exists
  /\ hstate' = [hstate EXCEPT ![h] = "open"]
  /\ handles' = handles \cup {h}
  /\ IF handle = "nil"
     THEN /\ handle' = "open"
          /\ stMode' = "RO"
          /\ stData' = <<>>
          /\ stPos' = 0
     ELSE UNCHANGED <<handle, stMode, stData, stPos>>
  /\ NoReturn
  /\ UNCHANGED <<fsVars, path, cacheValid, pc, tbw, tbr, opVars, writer>>

\* Create (or open with truncation) while no handle is open: an empty remote
\* file and an empty local staging file.
Create(h) ==
  /\ NoWriteStep
  /\ NoUploadStep
  /\ UNCHANGED nops
  /\ hstate[h] = "new"
  /\ \A g \in Handles : g < h => hstate[g] # "new"
  /\ handle = "nil"
  /\ handles = {}
  /\ hstate' = [hstate EXCEPT ![h] = "open"]
  /\ handles' = {h}
  /\ remote' = [remote EXCEPT ![path] = File(<<>>)]
  /\ handle' = "open"
  /\ stMode' = "RW"
  /\ stData' = <<>>
  /\ stPos' = 0
  /\ cacheValid' = FALSE
  /\ NoReturn
  /\ UNCHANGED <<connected, path, pc, tbw, tbr, opVars, writer>>

\* Rename of the inode's path: the inode keeps its handles and staging, the
\* remote file (and a writer open on it) moves to the new path.
Rename(q) ==
  /\ NoWriteStep
  /\ NoUploadStep
  /\ UNCHANGED nops
  /\ q # path
  /\ path = "a"
  /\ remote[path].exists
  /\ remote' = [remote EXCEPT ![path] = NoFile, ![q] = remote[path]]
  /\ writer' = [h \in Handles |->
                  IF writer[h].open /\ writer[h].path = path
                  THEN [writer[h] EXCEPT !.path = q] ELSE writer[h]]
  /\ path' = q
  /\ cacheValid' = FALSE
  /\ NoReturn
  /\ UNCHANGED <<connected, handles, handle, stMode, stData, stPos>>
  /\ UNCHANGED <<hstate, pc, tbw, tbr, opVars>>

\* ------------------------------------------------------- FileHandle
dataChanged(h) == tbw[h] > 0

\* The FileHandle exists: it was opened, and maybe released since.
Usable(h) == hstate[h] \in {"open", "released"}

\* Attr: the inode's attributes, which also fills the metadata cache.
Attr(h) ==
  /\ NoWriteStep
  /\ NoUploadStep
  /\ Start
  /\ Usable(h)
  /\ pc[h] = "idle"
  /\ cacheValid' = TRUE
  /\ ret' = Result(h, "Attr", "nil", 0, <<>>, "nil")
  /\ UNCHANGED <<fsVars, path, handles, handle, stMode, stData, stPos>>
  /\ UNCHANGED <<hstate, pc, tbw, tbr, opVars, writer>>

\* What Truncate returns when the staging truncate returned err: the error
\* is logged and nil returned.
TruncateErr(err) == "nil"

\* A Truncate that would also invalidate the metadata cache.
TruncateInvalidates(h, size) ==
  /\ NoWriteStep
  /\ NoUploadStep
  /\ Start
  /\ Usable(h)
  /\ handle = "open"
  /\ stMode = "RW"
  /\ stData' = TruncateTo(stData, size)
  /\ cacheValid' = FALSE
  /\ ret' = Result(h, "Truncate", TruncateErr("nil"), 0, <<>>, "nil")
  /\ UNCHANGED <<fsVars, path, handles, handle, stMode, stPos>>
  /\ UNCHANGED <<hstate, pc, tbw, tbr, opVars, writer>>

\* Truncate takes no Mutex.  A nil staging reference panics.
Truncate(h, size) ==
  /\ NoWriteStep
  /\ NoUploadStep
  /\ Start
  /\ Usable(h)
  /\ \/ /\ handle = "nil"
        /\ ret' = Result(h, "Truncate", "panic", 0, <<>>, "panic")
        /\ UNCHANGED stData
     \/ /\ handle = "open"
        /\ stMode = "RW"
        /\ stData' = TruncateTo(stData, size)
        /\ ret' = Result(h, "Truncate", TruncateErr("nil"), 0, <<>>, "nil")
     \/ /\ handle # "nil"
        /\ ret' = Result(h, "Truncate", TruncateErr("IO"), 0, <<>>, "IO")
        /\ UNCHANGED stData
  /\ UNCHANGED <<fsVars, path, handles, handle, stMode, stPos, cacheValid>>
  /\ UNCHANGED <<hstate, pc, tbw, tbr, opVars, writer>>

\* A Read that would return the staging ReadAt's error as it is.
ReadErrAsIs(err) == err

\* What Read returns when the staging ReadAt returned err: io.EOF is
\* success, any other error is returned.
ReadErr(err) == IF err = "EOF" THEN "nil" ELSE err

Read(h, off, size) ==
  /\ NoWriteStep
  /\ NoUploadStep
  /\ Start
  /\ Usable(h)
  /\ pc[h] = "idle"
  /\ \E r \in
       IF handle = "nil" THEN {[n |-> 0, data |-> <<>>, err |-> "panic"]}
       ELSE IF handle = "closed" THEN {[n |-> 0, data |-> <<>>, err |-> "IO"]}
       ELSE LET ok == ReadAt(StagingContent, off, size) IN
            {ok} \cup {[n |-> k, data |-> Take(ok.data, k), err |-> "IO"] : k \in 0..ok.n} :
       /\ tbr[h] + r.n <= MaxRead
       /\ tbr' = [tbr EXCEPT ![h] = @ + r.n]
       /\ ret' = Result(h, "Read", ReadErr(r.err), r.n, r.data, r.err)
  /\ UNCHANGED <<fsVars, inodeVars, hstate, pc, tbw, opVars, writer>>

\* upgradeHandleForWriting: read-only proxy -> local read-write staging file
\* holding the remote content; idempotent.  ok = FALSE: the download failed
\* and the proxy stays read-only.
upgradeHandleForWriting(ok) ==
  IF handle = "open" /\ stMode = "RO" /\ ok
  THEN [mode |-> "RW", data |-> StagingContent]
  ELSE [mode |-> stMode, data |-> stData]

\* What a Write that the staging store took nw bytes of adds to
\* totalBytesWritten, also when WriteAt returned an error.
WriteCount(nw) == nw

Write(h, off, bytes) ==
  /\ NoUploadStep
  /\ Start
  /\ Usable(h)
  /\ pc[h] = "idle"
  /\ off + Len(bytes) <= MaxSize
  /\ IF handle = "nil"
     THEN /\ ret' = Result(h, "Write", "panic", 0, <<>>, "panic")
          /\ UNCHANGED <<stMode, stData, tbw, lastW>>
     ELSE \E ok \in BOOLEAN :
          LET up == upgradeHandleForWriting(ok) IN
          \E nw \in 0..Len(bytes) :
             /\ tbw[h] + nw <= MaxWritten
             /\ (handle = "closed" \/ up.mode = "RO") => nw = 0
             /\ stMode' = up.mode
             /\ stData' = IF nw = 0 THEN up.data ELSE WriteAt(up.data, off, Take(bytes, nw))
             /\ tbw' = [tbw EXCEPT ![h] = @ + WriteCount(nw)]
             /\ ret' = IF nw = Len(bytes)
                       THEN Result(h, "Write", "nil", nw, <<>>, "nil")
                       ELSE Result(h, "Write", "IO", nw, <<>>, "IO")
             /\ lastW' = IF nw = Len(bytes)
                         THEN [lastW EXCEPT ![h] = [valid |-> TRUE, off |-> off, data |-> bytes]]
                         ELSE lastW
  /\ UNCHANGED <<fsVars, path, handles, handle, stPos, cacheValid>>
  /\ UNCHANGED <<hstate, pc, tbr, opVars, writer>>

\* ------------------------------------------------------ retry policy
\* Errors of the remote calls; "Perm" stands for the non-retriable kinds.
CreateErrors == {"nil", "EOF", "Transport", "Perm"}
StreamErrors == {"nil", "EOF", "Transport"}

\* eofFinal: whether the classifier counts io.EOF as non-retriable.
IsSuccessOrNonRetriableError(err, eofFinal) ==
  \/ err \in {"nil", "Perm", "IO", "panic"}
  \/ err = "EOF" /\ eofFinal

\* RetryOp.ShouldRetry with the op at attempt number att.
ShouldRetry(att, err, eofFinal) ==
  /\ ~IsSuccessOrNonRetriableError(err, eofFinal)
  /\ att < MaxAttempts

\* ---------------------------------------------------------- copyToDFS
\* An exit test that would not ask the retry operation.
copyToDFSReturnsUncapped(err, att, eofFinal) ==
  \/ err # "EOF"
  \/ IsSuccessOrNonRetriableError(err, eofFinal)

\* The loop's exit test after a FlushAttempt returned err.
copyToDFSReturns(err, att, eofFinal) ==
  \/ err # "EOF"
  \/ IsSuccessOrNonRetriableError(err, eofFinal)
  \/ ~ShouldRetry(att, err, eofFinal)

\* A copyToDFS that would report success whatever its last attempt returned.
copyToDFSResultNil(err) == "nil"

\* What copyToDFS returns when it leaves the loop with err.
copyToDFSResult(err) == err

\* The FlushAttempt of handle h, the n-th of its copyToDFS, returned err:
\* copyToDFS returns (the deferred InvalidateMetadataCache runs, Flush / Fsync
\* unlocks and returns), or closes the connector and goes round again.
AttemptDone(h, err, n) ==
  \E eofFinal \in BOOLEAN :
    IF copyToDFSReturns(err, attempt[h], eofFinal)
    THEN /\ pc' = [pc EXCEPT ![h] = "idle"]
         /\ ret' = CopyResult(h, operation[h], copyToDFSResult(err), n, writer[h], err)
         /\ operation' = [operation EXCEPT ![h] = "none"]
         /\ attempt' = [attempt EXCEPT ![h] = 0]
         /\ attempts' = [attempts EXCEPT ![h] = 0]
         /\ lastErr' = [lastErr EXCEPT ![h] = "nil"]
         /\ bcap' = [bcap EXCEPT ![h] = 0]
         /\ cacheValid' = FALSE
         /\ flushed' = IF copyToDFSResult(err) = "nil" THEN flushed \cup {h} ELSE flushed
         /\ UNCHANGED connected
    ELSE /\ pc' = [pc EXCEPT ![h] = "create"]
         /\ attempt' = [attempt EXCEPT ![h] = @ + 1]
         /\ attempts' = [attempts EXCEPT ![h] = n]
         /\ lastErr' = [lastErr EXCEPT ![h] = err]
         /\ bcap' = [bcap EXCEPT ![h] = 0]
         /\ connected' = FALSE
         /\ NoReturn
         /\ UNCHANGED <<operation, cacheValid, flushed>>

\* The FlushAttempt of handle h goes on to its step at label.
AttemptGoes(h, label) ==
  /\ pc' = [pc EXCEPT ![h] = label]
  /\ NoReturn
  /\ UNCHANGED <<operation, attempt, lastErr, cacheValid, flushed>>

\* A FlushAttempt that would create the remote file at the path the inode
\* had at first, whatever it was renamed to.
CreateTargetAtFirst == "a"

\* The path FlushAttempt creates the remote file at.
CreateTarget == AbsolutePath

\* FlushAttempt, CreateFile(path, mode, overwrite = true): an empty remote
\* file replaces what was at the path.
FlushAttemptCreate(h) ==
  /\ NoWriteStep
  /\ UNCHANGED nops
  /\ pc[h] = "create"
  /\ \E e \in CreateErrors :
       IF e = "nil"
       THEN /\ writer' = [writer EXCEPT ![h] = [open |-> TRUE, path |-> CreateTarget, data |-> <<>>, rerr |-> "nil"]]
            /\ remote' = [remote EXCEPT ![CreateTarget] = File(<<>>)]
            /\ connected' = TRUE
            /\ attempts' = [attempts EXCEPT ![h] = @ + 1]
            /\ AttemptGoes(h, "seek")
            /\ UNCHANGED bcap
       ELSE /\ AttemptDone(h, e, attempts[h] + 1)
            /\ UNCHANGED <<writer, remote>>
  /\ UNCHANGED <<path, handles, handle, stMode, stData, stPos>>
  /\ UNCHANGED <<hstate, tbw, tbr>>

\* A seek that would leave the offset where the last Read left it.
SeekToCurrent == stPos

\* Where SeekToStart leaves the seek offset of the staging file.
SeekToStart == 0

\* FlushAttempt, SeekToStart on the staging file; an error returns with the
\* remote writer left as it is.
FlushAttemptSeek(h) ==
  /\ NoWriteStep
  /\ UNCHANGED nops
  /\ pc[h] = "seek"
  /\ \/ /\ handle = "nil"
        /\ AttemptDone(h, "panic", attempts[h])
        /\ UNCHANGED stPos
     \/ /\ handle # "nil"
        /\ AttemptDone(h, "IO", attempts[h])
        /\ UNCHANGED stPos
     \/ /\ handle = "open"
        /\ stPos' = SeekToStart
        /\ bcap' = [bcap EXCEPT ![h] = ChunkSize]
        /\ AttemptGoes(h, "copy")
        /\ UNCHANGED <<attempts, connected>>
  /\ UNCHANGED <<remote, path, handles, handle, stMode, stData>>
  /\ UNCHANGED <<hstate, tbw, tbr, writer>>

\* Whether the copy loop stops after a staging Read returned err: any
\* error, io.EOF or not, breaks out of the loop to w.Close().
CopyLoopBreaks(err) == err # "nil"

\* FlushAttempt, one round of the copy loop: Read the next chunk of staging at
\* the shared seek offset, Write it to the remote writer.
FlushAttemptCopy(h) ==
  /\ NoWriteStep
  /\ UNCHANGED nops
  /\ pc[h] = "copy"
  /\ LET n == Max(0, Min(bcap[h], Len(StagingContent) - stPos))
         chunk == SubSeq(StagingContent, stPos + 1, stPos + n)
     IN
     \/ /\ handle = "nil"
        /\ AttemptDone(h, "panic", attempts[h])
        /\ UNCHANGED <<stPos, writer>>
     \/ /\ handle # "nil"
        /\ \E rerr \in (IF handle = "open" /\ n = 0 THEN {"EOF", "IO"} ELSE {"IO"}) :
             /\ CopyLoopBreaks(rerr)
             /\ writer' = [writer EXCEPT ![h].rerr = rerr]
             /\ AttemptGoes(h, "close")
        /\ UNCHANGED <<stPos, bcap, attempts, connected>>
     \/ /\ handle = "open"
        /\ n > 0
        /\ Len(writer[h].data) + n <= MaxUpload
        /\ stPos' = stPos + n
        /\ \E e \in StreamErrors :
             IF e = "nil"
             THEN /\ writer' = [writer EXCEPT ![h].data = @ \o chunk]
                  /\ bcap' = [bcap EXCEPT ![h] = n]
                  /\ AttemptGoes(h, "copy")
                  /\ UNCHANGED <<attempts, connected>>
             ELSE /\ writer' = [writer EXCEPT ![h] = NoWriter]
                  /\ AttemptDone(h, e, attempts[h])
  /\ UNCHANGED <<remote, path, handles, handle, stMode, stData>>
  /\ UNCHANGED <<hstate, tbw, tbr>>

\* FlushAttempt, w.Close(): the remote file gets what the writer was given.
FlushAttemptClose(h) ==
  /\ NoWriteStep
  /\ UNCHANGED nops
  /\ pc[h] = "close"
  /\ \E e \in StreamErrors :
       /\ remote' = IF e = "nil"
                    THEN [remote EXCEPT ![writer[h].path] = File(writer[h].data)]
                    ELSE remote
       /\ writer' = [writer EXCEPT ![h] = NoWriter]
       /\ AttemptDone(h, e, attempts[h])
  /\ UNCHANGED <<path, handles, handle, stMode, stData, stPos>>
  /\ UNCHANGED <<hstate, tbw, tbr>>

\* Flush and Fsync: nothing to do without written data, else copyToDFS.
Sync(h, op) ==
  /\ NoWriteStep
  /\ NoUploadStep
  /\ Start
  /\ Usable(h)
  /\ pc[h] = "idle"
  /\ IF dataChanged(h)
     THEN /\ pc' = [pc EXCEPT ![h] = "create"]
          /\ operation' = [operation EXCEPT ![h] = op]
          /\ attempt' = [attempt EXCEPT ![h] = 1]
          /\ attempts' = [attempts EXCEPT ![h] = 0]
          /\ NoReturn
     ELSE /\ ret' = Result(h, op, "nil", 0, <<>>, "nil")
          /\ UNCHANGED <<pc, operation, attempt, attempts>>
  /\ UNCHANGED <<fsVars, inodeVars, hstate, tbw, tbr, lastErr, bcap, writer>>

Flush(h) == Sync(h, "Flush")

\* An Fsync that would return success without an upload, written data or
\* not.
FsyncNoUpload(h) ==
  /\ NoWriteStep
  /\ NoUploadStep
  /\ Start
  /\ Usable(h)
  /\ pc[h] = "idle"
  /\ ret' = Result(h, "Fsync", "nil", 0, <<>>, "nil")
  /\ UNCHANGED <<fsVars, inodeVars, hstate, pc, tbw, tbr, opVars, writer>>

Fsync(h) == Sync(h, "Fsync")

\* ------------------------------------------------------------ Release
\* Release returns err: the handle is released from then on.
ReleaseReturn(h, err) ==
  /\ pc' = [pc EXCEPT ![h] = "idle"]
  /\ hstate' = [hstate EXCEPT ![h] = "released"]
  /\ ret' = Result(h, "Release", err, 0, <<>>, err)

\* A Release that would leave the metadata cache as it is.
ReleaseKeepsCache(h) ==
  /\ NoWriteStep
  /\ NoUploadStep
  /\ Start
  /\ Usable(h)
  /\ pc[h] = "idle"
  /\ handles' = handles \ {h}
  /\ pc' = [pc EXCEPT ![h] = "rel_count"]
  /\ NoReturn
  /\ UNCHANGED <<fsVars, path, handle, stMode, stData, stPos, cacheValid>>
  /\ UNCHANGED <<hstate, tbw, tbr, opVars, writer>>

\* Release: lock, InvalidateMetadataCache, RemoveHandle.
Release(h) ==
  /\ NoWriteStep
  /\ NoUploadStep
  /\ Start
  /\ Usable(h)
  /\ pc[h] = "idle"
  /\ cacheValid' = FALSE
  /\ handles' = handles \ {h}
  /\ pc' = [pc EXCEPT ![h] = "rel_count"]
  /\ NoReturn
  /\ UNCHANGED <<fsVars, path, handle, stMode, stData, stPos>>
  /\ UNCHANGED <<hstate, tbw, tbr, opVars, writer>>

\* Whether Release closes staging when countActiveHandles() returned n.
LastHandle(n) == n = 0

\* Release: activeHandles := countActiveHandles().
ReleaseCount(h) ==
  /\ NoWriteStep
  /\ NoUploadStep
  /\ UNCHANGED nops
  /\ pc[h] = "rel_count"
  /\ IF LastHandle(countActiveHandles)
     THEN /\ pc' = [pc EXCEPT ![h] = "rel_close"]
          /\ NoReturn
          /\ UNCHANGED hstate
     ELSE ReleaseReturn(h, "nil")
  /\ UNCHANGED <<fsVars, inodeVars, tbw, tbr, opVars, writer>>

\* Release: fh.File.handle.Close(); the error of a second Close is logged.
ReleaseClose(h) ==
  /\ NoWriteStep
  /\ NoUploadStep
  /\ UNCHANGED nops
  /\ pc[h] = "rel_close"
  /\ IF handle = "nil"
     THEN /\ ReleaseReturn(h, "panic")
          /\ UNCHANGED <<handle, stMode, stData, stPos>>
     ELSE /\ pc' = [pc EXCEPT ![h] = "rel_nil"]
          /\ handle' = "closed"
          /\ NoReturn
          /\ UNCHANGED <<hstate, stMode, stData, stPos>>
  /\ UNCHANGED <<fsVars, path, handles, cacheValid, tbw, tbr, opVars, writer>>

\* Release: fh.File.handle = nil, then return nil.
ReleaseNil(h) ==
  /\ NoWriteStep
  /\ NoUploadStep
  /\ UNCHANGED nops
  /\ pc[h] = "rel_nil"
  /\ handle' = "nil"
  /\ stMode' = "RO"
  /\ stData' = <<>>
  /\ stPos' = 0
  /\ ReleaseReturn(h, "nil")
  /\ UNCHANGED <<fsVars, path, handles, cacheValid>>
  /\ UNCHANGED <<tbw, tbr, opVars, writer>>

\* ------------------------------------------------------ specification
Next ==
  \/ \E h \in Handles : Open(h)
  \/ \E h \in Handles : Create(h)
  \/ \E q \in Paths : Rename(q)
  \/ \E h \in Handles : Attr(h)
  \/ \E h \in Handles : \E size \in 0..MaxSize : Truncate(h, size)
  \/ \E h \in Handles : \E off \in 0..MaxSize : \E size \in 1..MaxSize : Read(h, off, size)
  \/ \E h \in Handles : \E off \in 0..(MaxSize - 1) : \E bytes \in WriteData(h) : Write(h, off, bytes)
  \/ \E h \in Handles : Flush(h)
  \/ \E h \in Handles : Fsync(h)
  \/ \E h \in Handles : FlushAttemptCreate(h)
  \/ \E h \in Handles : FlushAttemptSeek(h)
  \/ \E h \in Handles : FlushAttemptCopy(h)
  \/ \E h \in Handles : FlushAttemptClose(h)
  \/ \E h \in Handles : Release(h)
  \/ \E h \in Handles : ReleaseCount(h)
  \/ \E h \in Handles : ReleaseClose(h)
  \/ \E h \in Handles : ReleaseNil(h)

Spec == Init /\ [][Next]_vars

\* Sequential use: an operation starts only when no other is running, so
\* operations never overlap.
AllIdle == \A h \in Handles : pc[h] = "idle"

SeqNext ==
  \/ AllIdle /\ \E h \in Handles : Open(h)
  \/ AllIdle /\ \E h \in Handles : Create(h)
  \/ AllIdle /\ \E q \in Paths : Rename(q)
  \/ AllIdle /\ \E h \in Handles : Attr(h)
  \/ AllIdle /\ \E h \in Handles : \E size \in 0..MaxSize : Truncate(h, size)
  \/ AllIdle /\ \E h \in Handles : \E off \in 0..MaxSize : \E size \in 1..MaxSize : Read(h, off, size)
  \/ AllIdle /\ \E h \in Handles : \E off \in 0..(MaxSize - 1) : \E bytes \in WriteData(h) : Write(h, off, bytes)
  \/ AllIdle /\ \E h \in Handles : Flush(h)
  \/ AllIdle /\ \E h \in Handles : Fsync(h)
  \/ AllIdle /\ \E h \in Handles : Release(h)
  \/ \E h \in Handles : FlushAttemptCreate(h)
  \/ \E h \in Handles : FlushAttemptSeek(h)
  \/ \E h \in Handles : FlushAttemptCopy(h)
  \/ \E h \in Handles : FlushAttemptClose(h)
  \/ \E h \in Handles : ReleaseCount(h)
  \/ \E h \in Handles : ReleaseClose(h)
  \/ \E h \in Handles : ReleaseNil(h)

SeqSpec == Init /\ [][SeqNext]_vars

\* Several writers: every handle is open on the inode and has had one Write
\* of one byte accepted by the shared staging file, handle 1 first; what
\* follows is any interleaving of Flush, Fsync and Truncate of the handles
\* and a rename of the inode.
RECURSIVE AllWritten(_, _)
AllWritten(k, offs) ==
  IF k = 0 THEN InitContent
  ELSE WriteAt(AllWritten(k - 1, offs), offs[k], <<k>>)

WritersInit ==
  \E offs \in [Handles -> 0..(MaxSize - 1)] :
    /\ connected = TRUE
    /\ remote = [p \in Paths |-> IF p = "a" THEN File(InitContent) ELSE NoFile]
    /\ path = "a"
    /\ handles = Handles
    /\ handle = "open"
    /\ stMode = "RW"
    /\ stData = AllWritten(NumHandles, offs)
    /\ stPos = 0
    /\ cacheValid = FALSE
    /\ hstate = [h \in Handles |-> "open"]
    /\ pc = [h \in Handles |-> "idle"]
    /\ operation = [h \in Handles |-> "none"]
    /\ tbw = [h \in Handles |-> 1]
    /\ tbr = [h \in Handles |-> 0]
    /\ attempt = [h \in Handles |-> 0]
    /\ attempts = [h \in Handles |-> 0]
    /\ lastErr = [h \in Handles |-> "nil"]
    /\ bcap = [h \in Handles |-> 0]
    /\ writer = [h \in Handles |-> NoWriter]
    /\ ret = Result(NumHandles, "Write", "nil", 1, <<>>, "nil")
    /\ nops = 0
    /\ lastW = [h \in Handles |-> [valid |-> TRUE, off |-> offs[h], data |-> <<h>>]]
    /\ flushed = {}

WritersNext ==
  \/ \E q \in Paths : Rename(q)
  \/ nops < MaxWriterOps /\ \E h \in Handles : \E size \in 0..MaxSize : Truncate(h, size)
  \/ nops < MaxWriterOps /\ \E h \in Handles : Flush(h)
  \/ nops < MaxWriterOps /\ \E h \in Handles : Fsync(h)
  \/ \E h \in Handles : FlushAttemptCreate(h)
  \/ \E h \in Handles : FlushAttemptSeek(h)
  \/ \E h \in Handles : FlushAttemptCopy(h)
  \/ \E h \in Handles : FlushAttemptClose(h)

WritersSpec == WritersInit /\ [][WritersNext]_vars

\* Fair scheduling of a running copyToDFS: the goroutine that holds the
\* handle's mutex keeps being scheduled.
FlushPcs == {"create", "seek", "copy", "close"}

copyToDFSStep(h) ==
  \/ FlushAttemptCreate(h)
  \/ FlushAttemptSeek(h)
  \/ FlushAttemptCopy(h)
  \/ FlushAttemptClose(h)

FairSpec == Spec /\ \A h \in Handles : WF_vars(copyToDFSStep(h))


\* ---------------------------------------------------------- properties
SyncOps == {"Flush", "Fsync"}
ReleasePcs == {"rel_count", "rel_close", "rel_nil"}

\* Whether data holds the bytes of the Write w at w's offset.
HoldsWrite(data, w) == ReadAt(data, w.off, Len(w.data)).data = w.data

\* C1: when a Flush or Fsync of a handle returns success after a Write of
\* that handle was accepted, the remote file holds that Write's bytes at its offset,
\* whatever other operations ran meanwhile.  (Stated for Writes whose bytes
\* are still in the staging file when the Flush returns.)
C1_FlushedWriteIsRemote ==
  \A h \in Handles :
    (/\ ret.h = h /\ ret.op \in SyncOps /\ ret.err = "nil"
     /\ lastW[h].valid
     /\ stMode = "RW" /\ HoldsWrite(stData, lastW[h]))
    => (remote[path].exists /\ HoldsWrite(remote[path].data, lastW[h]))

\* C2: when operations do not overlap, a successful upload replaces the
\* remote file with the whole staging content: after it the remote file has
\* exactly the size and the bytes of the staging file, and nothing of an
\* earlier, longer content.
C2_UploadReplacesRemote ==
  (ret.op \in SyncOps /\ ret.err = "nil" /\ ret.n > 0)
  => /\ remote[path].exists
     /\ remote[path].data = StagingContent

\* C3: an upload goes to the inode's path as it is when the attempt creates
\* the remote file: after a rename nothing is created at the old path, every
\* open writer is on the current path, and a successful upload leaves its
\* bytes at the current path.
C3_UploadUsesCurrentPath ==
  /\ path = "b" => ~remote["a"].exists
  /\ \A h \in Handles : writer[h].open => writer[h].path = path
  /\ (ret.op \in SyncOps /\ ret.err = "nil" /\ ret.n > 0)
       => (remote[path].exists /\ remote[path].data = ret.data)

\* After the rename a handle's upload succeeded with its written byte at
\* the new path.
C3_Witness ==
  /\ path = "b"
  /\ ret.op \in SyncOps /\ ret.err = "nil" /\ ret.n > 0
  /\ lastW[ret.h].valid
  /\ HoldsWrite(remote["b"].data, lastW[ret.h])
  /\ ~remote["a"].exists

\* C4: once Release has returned for a handle, no operation on that handle
\* succeeds.
C4_NoSuccessAfterRelease ==
  (ret.op \notin {"none", "Release"} /\ hstate[ret.h] = "released")
  => ret.err # "nil"

\* C5: when no Release is running, the staging reference is nil exactly when
\* the inode's handle set is empty.
C5_StagingNilIffNoHandles ==
  (\A h \in Handles : pc[h] \notin ReleasePcs)
  => (handle = "nil" <=> handles = {})

\* C6: Release never discards written data: when the last Release destroys
\* the staging file, a Write the handle had accepted and staging still holds
\* is in the remote file.
C6_ReleaseUploadsDirtyData ==
  \A h \in Handles :
    (/\ pc[h] = "rel_nil"
     /\ lastW[h].valid
     /\ stMode = "RW" /\ HoldsWrite(stData, lastW[h]))
    => (remote[path].exists /\ HoldsWrite(remote[path].data, lastW[h]))

\* C7: an upload attempt that fails with a transport error while attempts
\* remain is retried, so Flush / Fsync surfaces a transport error only when
\* the attempts are exhausted.
C7_TransportErrorIsRetried ==
  (ret.op \in SyncOps /\ ret.err = "Transport") => ret.n >= MaxAttempts

\* The bounds of a copyToDFS: at most MaxAttempts attempts, another round
\* only after a retriable failure, the last attempt's result returned as it
\* is.
copyToDFSBounded ==
  /\ \A h \in Handles :
       /\ attempts[h] <= MaxAttempts
       /\ attempt[h] <= MaxAttempts
       /\ attempt[h] > 1 => lastErr[h] \in {"EOF", "Transport"}
  /\ ret.op \in SyncOps
       => /\ ret.n <= MaxAttempts
          /\ ret.err = ret.ierr

\* C8: copyToDFS always terminates: every copyToDFS that runs returns, it
\* makes at most MaxAttempts attempts, goes round again only after an
\* attempt failed with a retriable error, and returns the last attempt's
\* result unchanged.
C8_CopyToDFSTerminates ==
  /\ []copyToDFSBounded
  /\ \A h \in Handles : (pc[h] \in FlushPcs) ~> (pc[h] = "idle")

\* A copyToDFS went round again after a retriable failure and returned on
\* its last attempt.
C8_Witness ==
  /\ ret.op \in SyncOps
  /\ ret.n = MaxAttempts
  /\ ret.err = "EOF"

\* C9: Read returns success with the bytes read when the staging ReadAt
\* returned io.EOF (none at or past the end of the file), and returns every
\* other ReadAt error.
C9_ReadHidesEOF ==
  ret.op = "Read"
  => /\ Len(ret.data) = ret.n
     /\ ret.ierr \in {"nil", "EOF"} => ret.err = "nil"
     /\ ret.ierr \notin {"nil", "EOF"} => ret.err = ret.ierr

\* A Read at the end of the file got io.EOF from staging and returned
\* success with no bytes.
C9_Witness ==
  /\ ret.op = "Read"
  /\ ret.ierr = "EOF"
  /\ ret.err = "nil"
  /\ ret.n = 0

\* C10: a size set by Truncate alone (no Write accepted on any handle) is
\* the remote file's size once the last handle is closed.
C10_TruncateSizeReachesRemote ==
  \A h \in Handles :
    (/\ pc[h] = "rel_nil"
     /\ stMode = "RW"
     /\ \A g \in Handles : tbw[g] = 0)
    => (remote[path].exists /\ Len(remote[path].data) = Len(stData))


\* C11: the operations of one handle are serialised on its mutex: when an
\* operation of a handle has run its body and returns, no other operation of
\* that handle is inside its body (holding the mutex at some position).
C11_HandleOpsSerialised ==
  ret.op # "none" => pc[ret.h] = "idle"


\* A step in which handle h starts the Flush or Fsync op.
SyncStarts(h, op) ==
  /\ nops' = nops + 1
  /\ \/ ret'.h = h /\ ret'.op = op
     \/ operation[h] = "none" /\ operation'[h] = op

\* What a Flush or Fsync of handle h does when it starts: with nothing
\* written it returns success and touches nothing; otherwise it enters
\* copyToDFS, whose first attempt is about to create the remote file.
SyncEffect(h) ==
  /\ UNCHANGED <<fsVars, inodeVars, hstate, tbw, tbr, lastErr, bcap, writer, lastW, flushed>>
  /\ IF tbw[h] = 0
     THEN /\ ret'.err = "nil" /\ ret'.n = 0
          /\ UNCHANGED <<pc, operation, attempt, attempts>>
     ELSE /\ ret' = NoRet
          /\ pc'[h] = "create"
          /\ attempt'[h] = 1 /\ attempts'[h] = 0

\* C12: Flush and Fsync have the same effect from every state: one can
\* start exactly when the other can, with nothing written each returns
\* success without a remote call, staging access or cache change, otherwise
\* each enters copyToDFS, and what a copyToDFS returns does not depend on
\* which of the two started it.
C12_FlushFsyncSame ==
  /\ [](\A h \in Handles : ENABLED Flush(h) <=> ENABLED Fsync(h))
  /\ [][\A h \in Handles : \A op \in SyncOps : SyncStarts(h, op) => SyncEffect(h)]_vars
  /\ [](ret.op \in SyncOps => ret.err = ret.ierr)

\* An Fsync ran copyToDFS and returned the success of its upload.
C12_Witness ==
  /\ ret.op = "Fsync"
  /\ ret.err = "nil"
  /\ ret.n > 0
  /\ tbw[ret.h] > 0


\* How a step may change the remote files: a rename moves the file, the
\* create of an upload attempt empties the file at the inode's path, and the
\* close of an attempt whose Flush / Fsync then returns success puts exactly
\* the bytes that attempt delivered there.
RemoteChange ==
  remote' # remote =>
    \/ /\ path' # path
       /\ remote'[path'] = remote[path]
    \/ \E h \in Handles :
         /\ pc[h] = "create" /\ pc'[h] = "seek"
         /\ remote' = [remote EXCEPT ![path] = File(<<>>)]
    \/ \E h \in Handles :
         /\ pc[h] = "close"
         /\ ret'.h = h /\ ret'.op \in SyncOps /\ ret'.err = "nil"
         /\ remote' = [remote EXCEPT ![path] = File(ret'.data)]

\* C13: uploads of different handles are not merged at the remote: when a
\* Flush / Fsync returns success the remote file is exactly what that one
\* uploaded, whichever handles flushed before or are flushing meanwhile, and
\* afterwards the remote file changes only as a whole, by the next upload.
C13_LastFlushWins ==
  /\ []((ret.op \in SyncOps /\ ret.err = "nil" /\ ret.n > 0)
          => remote[path] = File(ret.data))
  /\ [][RemoteChange]_vars

\* Every handle has had a successful upload, and the remote file is what the
\* one that returned last uploaded.
C13_Witness ==
  /\ ret.op \in SyncOps /\ ret.err = "nil" /\ ret.n > 0
  /\ flushed = Handles
  /\ Len(ret.data) > 0
  /\ remote[path] = File(ret.data)


\* C14: every staging-store error of a handle operation is surfaced and not
\* retried: an operation whose staging call (WriteAt, ReadAt, Truncate,
\* SeekToStart, or Read in the copy loop) failed returns an error, and no
\* copyToDFS goes round again after one.
C14_StagingErrorsSurface ==
  /\ (ret.op # "none" /\ (ret.ierr = "IO" \/ ret.rerr = "IO")) => ret.err # "nil"
  /\ \A h \in Handles : lastErr[h] # "IO"


\* C15: an upload attempt returns success only if it delivered as many bytes
\* as the staging file holds: a Flush / Fsync that returns success had its
\* copy loop end at the true end of staging, with the whole of it delivered
\* (operations not overlapping, so the staging size is the one it copied).
C15_SuccessMeansAllDelivered ==
  (ret.op \in SyncOps /\ ret.err = "nil" /\ ret.n > 0)
  => /\ ret.rerr = "EOF"
     /\ Len(ret.data) = Len(StagingContent)


\* C16: the metadata cache is invalidated before a mutation returns: a
\* Flush / Fsync that ran copyToDFS returns, with success or with an error,
\* in a state where the cache is invalid; every Release invalidates the
\* cache when it starts, and a Release returns only after it started, last
\* handle or not.
C16_CacheInvalidatedBeforeReturn ==
  /\ []((ret.op \in SyncOps /\ ret.n > 0) => ~cacheValid)
  /\ [][\A h \in Handles :
          /\ (pc[h] = "idle" /\ pc'[h] \in ReleasePcs) => ~cacheValid'
          /\ (ret'.h = h /\ ret'.op = "Release") => pc[h] \in ReleasePcs]_vars

\* A Flush / Fsync failed after its upload began and returned with the
\* cache invalid.
C16_Witness ==
  /\ ret.op \in SyncOps
  /\ ret.err # "nil"
  /\ ret.n > 0
  /\ ~cacheValid


\* How the upload attempts of handle h begin: an attempt, the first or a
\* retry, begins at the create; the create opens a new, empty remote writer
\* at the inode's path and empties the remote file there; the copy loop is
\* entered only from the seek, with the staging offset at 0 and nothing
\* delivered yet.
AttemptBegins(h) ==
  /\ attempt'[h] > attempt[h] => pc'[h] = "create"
  /\ (pc'[h] = "seek" /\ pc[h] # "seek") => pc[h] = "create"
  /\ (pc[h] = "create" /\ pc'[h] = "seek")
       => /\ writer'[h] = [open |-> TRUE, path |-> path, data |-> <<>>, rerr |-> "nil"]
          /\ remote'[path] = File(<<>>)
  /\ (pc'[h] = "copy" /\ pc[h] # "copy") => pc[h] = "seek"
  /\ (pc[h] = "seek" /\ pc'[h] = "copy")
       => /\ stPos' = 0
          /\ writer'[h].data = <<>>

\* C17: a retry is over the whole copy: every upload attempt of a copyToDFS
\* starts with a new remote writer created with overwrite and with staging
\* sought to offset 0, so no attempt resumes where a failed one stopped.
C17_RetryRestartsCopy ==
  [][\A h \in Handles : AttemptBegins(h)]_vars

\* A second attempt, after a first one failed, is about to copy from
\* offset 0 into a new writer.
C17_Witness ==
  \E h \in Handles :
    /\ attempt[h] = 2
    /\ lastErr[h] = "EOF"
    /\ pc[h] = "copy"
    /\ stPos = 0
    /\ writer[h].open /\ writer[h].data = <<>>
    /\ Len(StagingContent) > 0


\* C18: when no Release is running, a handle of the inode's handle set that
\* has totalBytesWritten > 0 finds the inode's staging file open in
\* read-write mode, the local file that holds the written bytes.
C18_WrittenMeansReadWrite ==
  (\A g \in Handles : pc[g] \notin ReleasePcs)
  => \A h \in handles :
       tbw[h] > 0 => (handle = "open" /\ stMode = "RW")


\* C19: Truncate changes only the staging file's size: the step in which a
\* Truncate runs leaves the remote files and the connector, the handle set,
\* the metadata cache, every handle's totalBytesRead and totalBytesWritten
\* and every running upload as they are, and the staging content is cut or
\* zero-filled to some size, or unchanged.
C19_TruncateFrame ==
  [][ret'.op = "Truncate"
       => /\ UNCHANGED <<fsVars, path, handles, handle, stMode, stPos, cacheValid>>
          /\ UNCHANGED <<hstate, pc, tbw, tbr, opVars, writer, lastW, flushed>>
          /\ \/ stData' = stData
             \/ \E size \in 0..MaxSize : stData' = TruncateTo(stData, size)]_vars

\* A Truncate changed the size of the staging file of a handle that wrote
\* nothing, with the metadata cache still valid and the remote file as it
\* was.
C19_Witness ==
  /\ ret.op = "Truncate"
  /\ ret.ierr = "nil"
  /\ tbw[ret.h] = 0
  /\ cacheValid
  /\ stMode = "RW"
  /\ remote[path].exists
  /\ Len(stData) # Len(remote[path].data)


\* C20: when handles of one inode are released side by side, the staging
\* file is closed once, by one of the Releases: no two Releases are both
\* past their Close of the same staging reference.
C20_StagingClosedOnce ==
  Cardinality({h \in Handles : pc[h] = "rel_nil"}) <= 1

\* A round of handle h's copy loop gave its remote writer more bytes.
UploadGrows(h) ==
  /\ writer[h].open /\ writer'[h].open
  /\ Len(writer'[h].data) > Len(writer[h].data)

\* C21: the bytes an upload attempt sends are the staging content read
\* contiguously from offset 0, each byte once and in order, also while
\* another handle of the inode uploads: every chunk a copy loop sends was read
\* at the offset equal to the number of bytes the attempt has sent so far, and
\* is the staging content from that offset.
C21_UploadReadsContiguously ==
  [][\A h \in Handles :
       UploadGrows(h) =>
         LET sent == Len(writer[h].data)
             now == Len(writer'[h].data)
         IN /\ stPos = sent
            /\ now <= Len(StagingContent)
            /\ writer'[h].data = writer[h].data \o SubSeq(StagingContent, sent + 1, now)]_vars

\* C22: every remote writer an upload attempt opened is closed before the
\* attempt returns, on every exit path that is an error return or success
\* (remote write failure, remote close failure, staging seek failure, staging
\* read failure): no writer is open when Flush / Fsync has returned, and none
\* is open when copyToDFS begins its next attempt.
C22_WriterClosedOnReturn ==
  /\ (ret.op \in SyncOps /\ ret.ierr # "panic") => ~writer[ret.h].open
  /\ \A h \in Handles :
       (pc[h] = "create" /\ lastErr[h] # "panic") => ~writer[h].open
====
